---------------------------- MODULE Spec2Model ----------------------------
(***************************************************************************)
(* Model of te::httpengine::mitm::http::HttpResponse                       *)
(* (HttpResponse.hpp / HttpResponse.cpp): the status code, the status      *)
(* string, the protocol version and the header preamble of one HTTP        *)
(* response transaction, together with the http_parser on_status callback. *)
(*                                                                         *)
(* A std::string is modelled as a sequence of one-character strings, so    *)
(* that appending, formatting a number and copying into a std::vector<char>*)
(* are computed character by character.                                    *)
(***************************************************************************)
EXTENDS Integers, Sequences, FiniteSets, TLC

(***************************************************************************)
(* Bounds of the model and the input sets the operations draw from.        *)
(***************************************************************************)

\* Largest number of headers the header collection holds in the model.
MaxHeaders == 2

\* uint16_t status codes passed to the setter, reported by the parser, or
\* found in the uninitialised m_statusCode: codes of the switch in
\* StatusCodeToMessage, codes it does not list, and both ends of the range.
Codes == {0, 100, 200, 404, 451, 507, 599, 999, 65535}

\* http_major / http_minor values the parser reports.
Majors == {0, 1, 2, 3}
Minors == {0, 1, 2}

\* HttpProtocolVersion values stored in m_httpVersion.
Versions == {"Unset", "HTTP1", "HTTP1_1", "HTTP2"}

\* Texts handed to StatusString(const std::string&).
CustomTexts ==
    { <<>>,
      <<"c","u","s","t","o","m">>,
      <<"H","T","T","P","/","1",".","1"," ","4","2","0"," ","E","n","h","a","n","c","e">> }

\* Raw reason-phrase bytes (at, length) the parser hands to the callback.
RawPhrases ==
    { <<"O","K">>,
      <<"E","n","h","a","n","c","e"," ","Y","o","u","r"," ","C","a","l","m">> }

\* Header name/value pairs the owner of the header collection inserts.
HeaderPool ==
    { << <<"C","o","n","t","e","n","t","-","T","y","p","e">>,
         <<"t","e","x","t","/","h","t","m","l">> >>,
      << <<"X","-","T","e","s","t">>, <<"1">> >> }

CRLF == <<"\r", "\n">>

(***************************************************************************)
(* State.                                                                  *)
(***************************************************************************)
VARIABLES
    lifecycle,       \* "alive" after HttpResponse(), "destroyed" after ~HttpResponse()
    m_statusCode,    \* uint16_t m_statusCode
    m_statusString,  \* std::string m_statusString
    m_httpVersion,   \* HttpProtocolVersion m_httpVersion (BaseHttpTransaction)
    m_headers,       \* header collection of BaseHttpTransaction, in iteration order
    heap,            \* handles obtained from malloc and not yet passed to free
    lastOp,          \* history: the last operation, its argument and what it returned
    codeSet          \* history: the code of the most recent StatusCode(code) call

vars == <<lifecycle, m_statusCode, m_statusString, m_httpVersion, m_headers,
          heap, lastOp, codeSet>>

\* The fields of the transaction that the operations read and write.
fields == <<m_statusCode, m_statusString, m_httpVersion, m_headers>>

\* The handle the constructor stores in m_httpParser.
m_httpParser == "http_parser#1"

(***************************************************************************)
(* std::to_string(code): the decimal digits of an unsigned value.          *)
(***************************************************************************)
Digit(d) ==
    CASE d = 0 -> "0" [] d = 1 -> "1" [] d = 2 -> "2" [] d = 3 -> "3"
      [] d = 4 -> "4" [] d = 5 -> "5" [] d = 6 -> "6" [] d = 7 -> "7"
      [] d = 8 -> "8" [] d = 9 -> "9"

RECURSIVE to_string(_)
to_string(n) ==
    IF n < 10 THEN <<Digit(n)>>
    ELSE Append(to_string(n \div 10), Digit(n % 10))

(***************************************************************************)
(* HttpResponse::StatusCodeToMessage: the switch over the status code.     *)
(***************************************************************************)
StatusMessages ==
    (* Continue *)
    100 :> <<"C","o","n","t","i","n","u","e">> @@
    (* Switching Protocols *)
    101 :> <<"S","w","i","t","c","h","i","n","g"," ","P","r","o","t","o","c","o","l","s">> @@
    (* Processing *)
    102 :> <<"P","r","o","c","e","s","s","i","n","g">> @@
    (* OK *)
    200 :> <<"O","K">> @@
    (* Created *)
    201 :> <<"C","r","e","a","t","e","d">> @@
    (* Accepted *)
    202 :> <<"A","c","c","e","p","t","e","d">> @@
    (* Non-Authoritative Information *)
    203 :> <<"N","o","n","-","A","u","t","h","o","r","i","t","a","t","i","v","e"," ","I","n","f","o","r","m","a","t","i","o","n">> @@
    (* No Content *)
    204 :> <<"N","o"," ","C","o","n","t","e","n","t">> @@
    (* Reset Content *)
    205 :> <<"R","e","s","e","t"," ","C","o","n","t","e","n","t">> @@
    (* Partial Content *)
    206 :> <<"P","a","r","t","i","a","l"," ","C","o","n","t","e","n","t">> @@
    (* Multi-Status *)
    207 :> <<"M","u","l","t","i","-","S","t","a","t","u","s">> @@
    (* Already Reported *)
    208 :> <<"A","l","r","e","a","d","y"," ","R","e","p","o","r","t","e","d">> @@
    (* IM Used *)
    226 :> <<"I","M"," ","U","s","e","d">> @@
    (* Multiple Choices *)
    300 :> <<"M","u","l","t","i","p","l","e"," ","C","h","o","i","c","e","s">> @@
    (* Moved Permanently *)
    301 :> <<"M","o","v","e","d"," ","P","e","r","m","a","n","e","n","t","l","y">> @@
    (* Found *)
    302 :> <<"F","o","u","n","d">> @@
    (* See Other *)
    303 :> <<"S","e","e"," ","O","t","h","e","r">> @@
    (* Not Modified *)
    304 :> <<"N","o","t"," ","M","o","d","i","f","i","e","d">> @@
    (* Use Proxy *)
    305 :> <<"U","s","e"," ","P","r","o","x","y">> @@
    (* Switch Proxy *)
    306 :> <<"S","w","i","t","c","h"," ","P","r","o","x","y">> @@
    (* Temporary Redirect *)
    307 :> <<"T","e","m","p","o","r","a","r","y"," ","R","e","d","i","r","e","c","t">> @@
    (* Permanent Redirect *)
    308 :> <<"P","e","r","m","a","n","e","n","t"," ","R","e","d","i","r","e","c","t">> @@
    (* Bad Request *)
    400 :> <<"B","a","d"," ","R","e","q","u","e","s","t">> @@
    (* Unauthorized *)
    401 :> <<"U","n","a","u","t","h","o","r","i","z","e","d">> @@
    (* Payment Required *)
    402 :> <<"P","a","y","m","e","n","t"," ","R","e","q","u","i","r","e","d">> @@
    (* Forbidden *)
    403 :> <<"F","o","r","b","i","d","d","e","n">> @@
    (* Not Found *)
    404 :> <<"N","o","t"," ","F","o","u","n","d">> @@
    (* Method Not Allowed *)
    405 :> <<"M","e","t","h","o","d"," ","N","o","t"," ","A","l","l","o","w","e","d">> @@
    (* Not Acceptable *)
    406 :> <<"N","o","t"," ","A","c","c","e","p","t","a","b","l","e">> @@
    (* Proxy Authentication Required *)
    407 :> <<"P","r","o","x","y"," ","A","u","t","h","e","n","t","i","c","a","t","i","o","n"," ","R","e","q","u","i","r","e","d">> @@
    (* Request Timeout *)
    408 :> <<"R","e","q","u","e","s","t"," ","T","i","m","e","o","u","t">> @@
    (* Conflict *)
    409 :> <<"C","o","n","f","l","i","c","t">> @@
    (* Gone *)
    410 :> <<"G","o","n","e">> @@
    (* Length Required *)
    411 :> <<"L","e","n","g","t","h"," ","R","e","q","u","i","r","e","d">> @@
    (* Precondition Failed *)
    412 :> <<"P","r","e","c","o","n","d","i","t","i","o","n"," ","F","a","i","l","e","d">> @@
    (* Request Entity Too Large *)
    413 :> <<"R","e","q","u","e","s","t"," ","E","n","t","i","t","y"," ","T","o","o"," ","L","a","r","g","e">> @@
    (* Request-URI Too Long *)
    414 :> <<"R","e","q","u","e","s","t","-","U","R","I"," ","T","o","o"," ","L","o","n","g">> @@
    (* Unsupported Media Type *)
    415 :> <<"U","n","s","u","p","p","o","r","t","e","d"," ","M","e","d","i","a"," ","T","y","p","e">> @@
    (* Requested Range Not Satisfiable *)
    416 :> <<"R","e","q","u","e","s","t","e","d"," ","R","a","n","g","e"," ","N","o","t"," ","S","a","t","i","s","f","i","a","b","l","e">> @@
    (* Expectation Failed *)
    417 :> <<"E","x","p","e","c","t","a","t","i","o","n"," ","F","a","i","l","e","d">> @@
    (* I'm a teapot *)
    418 :> <<"I","'","m"," ","a"," ","t","e","a","p","o","t">> @@
    (* Authentication Timeout *)
    419 :> <<"A","u","t","h","e","n","t","i","c","a","t","i","o","n"," ","T","i","m","e","o","u","t">> @@
    (* Method Failure *)
    420 :> <<"M","e","t","h","o","d"," ","F","a","i","l","u","r","e">> @@
    (* Unprocessable Entity *)
    422 :> <<"U","n","p","r","o","c","e","s","s","a","b","l","e"," ","E","n","t","i","t","y">> @@
    (* Locked *)
    423 :> <<"L","o","c","k","e","d">> @@
    (* Failed Dependency *)
    424 :> <<"F","a","i","l","e","d"," ","D","e","p","e","n","d","e","n","c","y">> @@
    (* Upgrade Required *)
    426 :> <<"U","p","g","r","a","d","e"," ","R","e","q","u","i","r","e","d">> @@
    (* Precondition Required *)
    428 :> <<"P","r","e","c","o","n","d","i","t","i","o","n"," ","R","e","q","u","i","r","e","d">> @@
    (* Too Many Requests *)
    429 :> <<"T","o","o"," ","M","a","n","y"," ","R","e","q","u","e","s","t","s">> @@
    (* Request Header Fields Too Large *)
    431 :> <<"R","e","q","u","e","s","t"," ","H","e","a","d","e","r"," ","F","i","e","l","d","s"," ","T","o","o"," ","L","a","r","g","e">> @@
    (* Login Timeout *)
    440 :> <<"L","o","g","i","n"," ","T","i","m","e","o","u","t">> @@
    (* No Response *)
    444 :> <<"N","o"," ","R","e","s","p","o","n","s","e">> @@
    (* Retry With *)
    449 :> <<"R","e","t","r","y"," ","W","i","t","h">> @@
    (* Blocked by Windows Parental Controls *)
    450 :> <<"B","l","o","c","k","e","d"," ","b","y"," ","W","i","n","d","o","w","s"," ","P","a","r","e","n","t","a","l"," ","C","o","n","t","r","o","l","s">> @@
    (* Unavailable For Legal Reasons *)
    451 :> <<"U","n","a","v","a","i","l","a","b","l","e"," ","F","o","r"," ","L","e","g","a","l"," ","R","e","a","s","o","n","s">> @@
    (* Request Header Too Large *)
    494 :> <<"R","e","q","u","e","s","t"," ","H","e","a","d","e","r"," ","T","o","o"," ","L","a","r","g","e">> @@
    (* Cert Error *)
    495 :> <<"C","e","r","t"," ","E","r","r","o","r">> @@
    (* No Cert *)
    496 :> <<"N","o"," ","C","e","r","t">> @@
    (* HTTP to HTTPS *)
    497 :> <<"H","T","T","P"," ","t","o"," ","H","T","T","P","S">> @@
    (* Token expired/invalid *)
    498 :> <<"T","o","k","e","n"," ","e","x","p","i","r","e","d","/","i","n","v","a","l","i","d">> @@
    (* Client Closed Request *)
    499 :> <<"C","l","i","e","n","t"," ","C","l","o","s","e","d"," ","R","e","q","u","e","s","t">> @@
    (* Internal Server Error *)
    500 :> <<"I","n","t","e","r","n","a","l"," ","S","e","r","v","e","r"," ","E","r","r","o","r">> @@
    (* Not Implemented *)
    501 :> <<"N","o","t"," ","I","m","p","l","e","m","e","n","t","e","d">> @@
    (* Bad Gateway *)
    502 :> <<"B","a","d"," ","G","a","t","e","w","a","y">> @@
    (* Service Unavailable *)
    503 :> <<"S","e","r","v","i","c","e"," ","U","n","a","v","a","i","l","a","b","l","e">> @@
    (* Gateway Timeout *)
    504 :> <<"G","a","t","e","w","a","y"," ","T","i","m","e","o","u","t">> @@
    (* HTTP Version Not Supported *)
    505 :> <<"H","T","T","P"," ","V","e","r","s","i","o","n"," ","N","o","t"," ","S","u","p","p","o","r","t","e","d">> @@
    (* Variant Also Negotiates *)
    506 :> <<"V","a","r","i","a","n","t"," ","A","l","s","o"," ","N","e","g","o","t","i","a","t","e","s">> @@
    (* Loop Detected *)
    508 :> <<"L","o","o","p"," ","D","e","t","e","c","t","e","d">> @@
    (* Bandwidth Limit Exceeded *)
    509 :> <<"B","a","n","d","w","i","d","t","h"," ","L","i","m","i","t"," ","E","x","c","e","e","d","e","d">> @@
    (* Not Extended *)
    510 :> <<"N","o","t"," ","E","x","t","e","n","d","e","d">> @@
    (* Network read timeout error *)
    598 :> <<"N","e","t","w","o","r","k"," ","r","e","a","d"," ","t","i","m","e","o","u","t"," ","e","r","r","o","r">> @@
    (* Network connect timeout error *)
    599 :> <<"N","e","t","w","o","r","k"," ","c","o","n","n","e","c","t"," ","t","i","m","e","o","u","t"," ","e","r","r","o","r">>

\* Variant: the default case yields a placeholder phrase.
StatusCodeToMessage_UnknownDefault(code) ==
    IF code \in DOMAIN StatusMessages THEN StatusMessages[code]
    ELSE <<"U","n","k","n","o","w","n">>

StatusCodeToMessage(code) ==
    IF code \in DOMAIN StatusMessages THEN StatusMessages[code] ELSE <<>>

(***************************************************************************)
(* HttpResponse::StatusCode(const uint16_t): the prefix appended for the   *)
(* stored protocol version, and the whole rebuilt status string.           *)
(***************************************************************************)
VersionPrefix(version) ==
    CASE version = "HTTP1"   -> <<"H","T","T","P","/","1",".","0"," ">>
      [] version = "HTTP1_1" -> <<"H","T","T","P","/","1",".","1"," ">>
      [] version = "HTTP2"   -> <<"H","T","T","P","/","2",".","0"," ">>
      [] OTHER               -> <<>>

\* Variant: a separating space is appended before the code whatever the version.
BuildStatusString_SpaceBeforeCode(version, code) ==
    (IF version = "Unset" THEN <<" ">> ELSE VersionPrefix(version))
        \o to_string(code) \o <<" ">> \o StatusCodeToMessage(code)

BuildStatusString(version, code) ==
    VersionPrefix(version) \o to_string(code) \o <<" ">> \o StatusCodeToMessage(code)

\* Variant: the setter returns early when the code is the one already stored.
StatusCode_SkipsSameCode(code) ==
    IF code = m_statusCode
    THEN UNCHANGED <<m_statusCode, m_statusString>>
    ELSE /\ m_statusCode' = code
         /\ m_statusString' = BuildStatusString(m_httpVersion', code)

\* The body of the setter.  It reads m_httpVersion as it is when the setter
\* runs: inside OnStatus that is the version the callback has just stored.
StatusCode(code) ==
    /\ m_statusCode' = code
    /\ m_statusString' = BuildStatusString(m_httpVersion', code)

(***************************************************************************)
(* HttpResponse::HeadersToString / HeadersToVector.                        *)
(***************************************************************************)
\* Variant: the name and the value are joined by a colon alone.
RECURSIVE AppendHeaders_NoSpace(_, _)
AppendHeaders_NoSpace(ret, headers) ==
    IF headers = <<>> THEN ret
    ELSE AppendHeaders_NoSpace(ret \o CRLF \o Head(headers)[1] \o <<":">> \o Head(headers)[2],
                               Tail(headers))

RECURSIVE AppendHeaders(_, _)
AppendHeaders(ret, headers) ==
    IF headers = <<>> THEN ret
    ELSE AppendHeaders(ret \o CRLF \o Head(headers)[1] \o <<":"," ">> \o Head(headers)[2],
                       Tail(headers))

HeadersToString ==
    AppendHeaders(m_statusString, m_headers) \o CRLF \o CRLF

HeadersToVector ==
    LET headersAsString == HeadersToString
    IN  [i \in 1..Len(headersAsString) |-> headersAsString[i]]

(***************************************************************************)
(* HttpResponse::OnStatus: the version the callback stores for the         *)
(* http_major / http_minor the parser reports.                             *)
(***************************************************************************)
VersionFromParser(http_major, http_minor) ==
    IF http_major = 1
    THEN IF http_minor = 0 THEN "HTTP1" ELSE "HTTP1_1"
    ELSE IF http_major = 2 THEN "HTTP2" ELSE "HTTP1_1"

\* The http_parser structs the callback is invoked with: a null pointer, a
\* parser whose data field is null, and a parser whose data field points to
\* the transaction.
NullParser ==
    [ptr |-> "nullptr", data |-> "nullptr",
     http_major |-> 0, http_minor |-> 0, status_code |-> 0]

ParserInputs ==
    {NullParser} \cup
    [ptr : {"valid"}, data : {"nullptr", "this"},
     http_major : Majors, http_minor : Minors, status_code : Codes]

\* What the callback has read of its arguments when it returns: a failing
\* call returns before it reads the version and the status code.
ReadOf(parser, at) ==
    IF parser.ptr = "nullptr" \/ parser.data = "nullptr"
    THEN [ptr |-> parser.ptr, data |-> parser.data]
    ELSE [ptr |-> parser.ptr, data |-> parser.data,
          http_major |-> parser.http_major, http_minor |-> parser.http_minor,
          status_code |-> parser.status_code, at |-> at]

\* Variant: a parser whose data field is null is reported as a success.
OnStatus_NullDataSucceeds(parser, at) ==
    IF parser.ptr # "nullptr"
    THEN IF parser.data = "nullptr"
         THEN /\ lastOp' = [op |-> "OnStatus", parser |-> ReadOf(parser, at), ret |-> 0]
              /\ UNCHANGED <<m_statusCode, m_statusString, m_httpVersion, codeSet>>
         ELSE /\ m_httpVersion' = VersionFromParser(parser.http_major, parser.http_minor)
              /\ StatusCode(parser.status_code)
              /\ codeSet' = <<parser.status_code>>
              /\ lastOp' = [op |-> "OnStatus", parser |-> ReadOf(parser, at), ret |-> 0]
    ELSE /\ lastOp' = [op |-> "OnStatus", parser |-> ReadOf(parser, at), ret |-> -1]
         /\ UNCHANGED <<m_statusCode, m_statusString, m_httpVersion, codeSet>>

\* Variant: the status string is rebuilt before the version is stored.
OnStatus_CodeBeforeVersion(parser, at) ==
    IF parser.ptr # "nullptr"
    THEN IF parser.data = "nullptr"
         THEN /\ lastOp' = [op |-> "OnStatus", parser |-> ReadOf(parser, at), ret |-> -1]
              /\ UNCHANGED <<m_statusCode, m_statusString, m_httpVersion, codeSet>>
         ELSE /\ m_statusCode' = parser.status_code
              /\ m_statusString' = BuildStatusString(m_httpVersion, parser.status_code)
              /\ m_httpVersion' = VersionFromParser(parser.http_major, parser.http_minor)
              /\ codeSet' = <<parser.status_code>>
              /\ lastOp' = [op |-> "OnStatus", parser |-> ReadOf(parser, at), ret |-> 0]
    ELSE /\ lastOp' = [op |-> "OnStatus", parser |-> ReadOf(parser, at), ret |-> -1]
         /\ UNCHANGED <<m_statusCode, m_statusString, m_httpVersion, codeSet>>

OnStatus(parser, at) ==
    IF parser.ptr # "nullptr"
    THEN IF parser.data = "nullptr"
         THEN /\ lastOp' = [op |-> "OnStatus", parser |-> ReadOf(parser, at), ret |-> -1]
              /\ UNCHANGED <<m_statusCode, m_statusString, m_httpVersion, codeSet>>
         ELSE /\ m_httpVersion' = VersionFromParser(parser.http_major, parser.http_minor)
              /\ StatusCode(parser.status_code)
              /\ codeSet' = <<parser.status_code>>
              /\ lastOp' = [op |-> "OnStatus", parser |-> ReadOf(parser, at), ret |-> 0]
    ELSE /\ lastOp' = [op |-> "OnStatus", parser |-> ReadOf(parser, at), ret |-> -1]
         /\ UNCHANGED <<m_statusCode, m_statusString, m_httpVersion, codeSet>>

(***************************************************************************)
(* Construction and destruction.                                           *)
(***************************************************************************)

\* HttpResponse::HttpResponse(): installs the callback, allocates the parser
\* with malloc and stores the transaction in its data field.  m_statusCode
\* has no initialiser and is not assigned, so it holds an indeterminate
\* uint16_t; m_statusString is default-constructed; m_httpVersion and
\* m_headers belong to BaseHttpTransaction.
InitialHttpVersion == "Unset"

Init ==
    /\ lifecycle = "alive"
    /\ m_statusCode \in Codes
    /\ m_statusString = <<>>
    /\ m_httpVersion = InitialHttpVersion
    /\ m_headers = <<>>
    /\ heap = {m_httpParser}
    /\ lastOp = [op |-> "HttpResponse"]
    /\ codeSet = <<>>

\* BaseHttpTransaction::~BaseHttpTransaction(), run after the derived
\* destructor: releases nothing of the parser.
BaseDestructor(h) == h

\* HttpResponse::~HttpResponse(): the body is empty.
Destructor ==
    /\ lifecycle = "alive"
    /\ lifecycle' = "destroyed"
    /\ heap' = BaseDestructor(heap)
    /\ lastOp' = [op |-> "~HttpResponse"]
    /\ UNCHANGED <<fields, codeSet>>

(***************************************************************************)
(* The operations a caller, the parser or the owner of the transaction     *)
(* performs on a live transaction.                                         *)
(***************************************************************************)
CallGetStatusCode ==
    /\ lifecycle = "alive"
    /\ lastOp' = [op |-> "GetStatusCode", ret |-> m_statusCode]
    /\ UNCHANGED <<lifecycle, fields, heap, codeSet>>

CallStatusCode(code) ==
    /\ lifecycle = "alive"
    /\ UNCHANGED m_httpVersion
    /\ StatusCode(code)
    /\ codeSet' = <<code>>
    /\ lastOp' = [op |-> "StatusCode", code |-> code]
    /\ UNCHANGED <<lifecycle, m_headers, heap>>

CallGetStatusString ==
    /\ lifecycle = "alive"
    /\ lastOp' = [op |-> "GetStatusString", text |-> m_statusString]
    /\ UNCHANGED <<lifecycle, fields, heap, codeSet>>

\* Variant: the text setter also clears the stored code.
StatusString_ResetsCode(status) ==
    /\ m_statusString' = status
    /\ m_statusCode' = 0
    /\ UNCHANGED m_httpVersion

StatusString(status) ==
    /\ m_statusString' = status
    /\ UNCHANGED <<m_statusCode, m_httpVersion>>

CallStatusString(status) ==
    /\ lifecycle = "alive"
    /\ StatusString(status)
    /\ lastOp' = [op |-> "StatusString", status |-> status]
    /\ UNCHANGED <<lifecycle, m_headers, heap, codeSet>>

CallHeadersToString ==
    /\ lifecycle = "alive"
    /\ lastOp' = [op |-> "HeadersToString", text |-> HeadersToString]
    /\ UNCHANGED <<lifecycle, fields, heap, codeSet>>

CallHeadersToVector ==
    /\ lifecycle = "alive"
    /\ lastOp' = [op |-> "HeadersToVector", text |-> HeadersToVector]
    /\ UNCHANGED <<lifecycle, fields, heap, codeSet>>

CallOnStatus(parser, at) ==
    /\ lifecycle = "alive"
    /\ OnStatus(parser, at)
    /\ UNCHANGED <<lifecycle, m_headers, heap>>

\* BaseHttpTransaction: the setter of the protocol version.
SetHttpVersion(version) ==
    /\ lifecycle = "alive"
    /\ m_httpVersion' = version
    /\ lastOp' = [op |-> "SetHttpVersion", version |-> version]
    /\ UNCHANGED <<lifecycle, m_statusCode, m_statusString, m_headers, heap, codeSet>>

\* BaseHttpTransaction: the owner of the header collection inserts a header.
AddHeader(header) ==
    /\ lifecycle = "alive"
    /\ Len(m_headers) < MaxHeaders
    /\ m_headers' = Append(m_headers, header)
    /\ lastOp' = [op |-> "AddHeader", header |-> header]
    /\ UNCHANGED <<lifecycle, m_statusCode, m_statusString, m_httpVersion, heap, codeSet>>

Next ==
    \/ CallGetStatusCode
    \/ \E code \in Codes : CallStatusCode(code)
    \/ CallGetStatusString
    \/ \E status \in CustomTexts : CallStatusString(status)
    \/ CallHeadersToString
    \/ CallHeadersToVector
    \/ \E parser \in ParserInputs, at \in RawPhrases : CallOnStatus(parser, at)
    \/ \E version \in Versions : SetHttpVersion(version)
    \/ \E header \in HeaderPool : AddHeader(header)
    \/ Destructor

Spec == Init /\ [][Next]_vars

(***************************************************************************)
(* Vocabulary of the properties: reading a status line back, the version   *)
(* token of each protocol version, and the preamble as CRLF-joined lines.  *)
(***************************************************************************)
DigitChars == {"0", "1", "2", "3", "4", "5", "6", "7", "8", "9"}

DigitValue(c) ==
    CASE c = "0" -> 0 [] c = "1" -> 1 [] c = "2" -> 2 [] c = "3" -> 3
      [] c = "4" -> 4 [] c = "5" -> 5 [] c = "6" -> 6 [] c = "7" -> 7
      [] c = "8" -> 8 [] c = "9" -> 9

\* The number a sequence of decimal digits denotes.
RECURSIVE DecimalValue(_)
DecimalValue(ds) ==
    IF ds = <<>> THEN 0
    ELSE 10 * DecimalValue(SubSeq(ds, 1, Len(ds) - 1)) + DigitValue(ds[Len(ds)])

StartsWith(s, p) ==
    Len(p) <= Len(s) /\ SubSeq(s, 1, Len(p)) = p

\* The position of the first space of s, or 0 when s has none.
FirstSpace(s) ==
    IF \E i \in 1..Len(s) : s[i] = " "
    THEN CHOOSE i \in 1..Len(s) : s[i] = " " /\ \A j \in 1..(i - 1) : s[j] # " "
    ELSE 0

\* The version token of a protocol version; none for Unset.
TokenOf(version) ==
    CASE version = "HTTP1"   -> <<"H","T","T","P","/","1",".","0">>
      [] version = "HTTP1_1" -> <<"H","T","T","P","/","1",".","1">>
      [] version = "HTTP2"   -> <<"H","T","T","P","/","2",".","0">>
      [] version = "Unset"   -> <<>>

\* text reads as "<token> <code> <phrase>": the token and one space (nothing
\* at all for an empty token), the code in decimal without leading zeros,
\* one space, and the phrase up to the end of the text.
IsStatusLine(text, token, code, phrase) ==
    LET pre  == IF token = <<>> THEN <<>> ELSE token \o <<" ">>
        rest == SubSeq(text, Len(pre) + 1, Len(text))
        k    == FirstSpace(rest)
        ds   == SubSeq(rest, 1, k - 1)
    IN  /\ StartsWith(text, pre)
        /\ k > 1
        /\ \A i \in 1..Len(ds) : ds[i] \in DigitChars
        /\ (Len(ds) = 1 \/ ds[1] # "0")
        /\ DecimalValue(ds) = code
        /\ SubSeq(rest, k + 1, Len(rest)) = phrase

\* The lines of a sequence joined by CRLF.
RECURSIVE JoinCRLF(_)
JoinCRLF(lines) ==
    IF Len(lines) = 1 THEN lines[1]
    ELSE lines[1] \o CRLF \o JoinCRLF(Tail(lines))

\* The preamble: the status line, one "Name: Value" line per header in
\* iteration order, and a blank line (the join ends in CRLF CRLF).
Preamble(statusLine, headers) ==
    JoinCRLF(<<statusLine>>
             \o [i \in 1..Len(headers) |-> headers[i][1] \o <<":"," ">> \o headers[i][2]]
             \o << <<>>, <<>> >>)

\* "HTTP/1.1 200 OK"
Line200 == <<"H","T","T","P","/","1",".","1"," ","2","0","0"," ","O","K">>

\* [("Content-Type","text/html"), ("X-Test","1")]
ExampleHeaders ==
    << << <<"C","o","n","t","e","n","t","-","T","y","p","e">>,
          <<"t","e","x","t","/","h","t","m","l">> >>,
       << <<"X","-","T","e","s","t">>, <<"1">> >> >>

\* "HTTP/1.1 200 OK\r\nContent-Type: text/html\r\nX-Test: 1\r\n\r\n"
ExamplePreamble ==
    <<"H","T","T","P","/","1",".","1"," ","2","0","0"," ","O","K","\r","\n",
      "C","o","n","t","e","n","t","-","T","y","p","e",":"," ",
      "t","e","x","t","/","h","t","m","l","\r","\n",
      "X","-","T","e","s","t",":"," ","1","\r","\n","\r","\n">>

(***************************************************************************)
(* C1.  After any call of StatusCode(code), whatever the state before it,  *)
(* m_statusCode is code and m_statusString reads exactly                   *)
(* "<version-token> <code> <StatusCodeToMessage(code)>" with the token of  *)
(* the stored protocol version; with the version Unset there is no token   *)
(* and the text begins with the first digit of the code.                   *)
(***************************************************************************)
C1_StatusCodeRebuildsStatusString ==
    lastOp.op = "StatusCode" =>
        /\ m_statusCode = lastOp.code
        /\ IsStatusLine(m_statusString, TokenOf(m_httpVersion), lastOp.code,
                        StatusCodeToMessage(lastOp.code))
        /\ (m_httpVersion = "Unset" => Head(m_statusString) \in DigitChars)

\* StatusCode(404) under HTTP2 gave "HTTP/2.0 404 Not Found".
C1_Witness ==
    /\ lastOp.op = "StatusCode"
    /\ lastOp.code = 404
    /\ m_httpVersion = "HTTP2"
    /\ m_statusString = <<"H","T","T","P","/","2",".","0"," ","4","0","4"," ",
                          "N","o","t"," ","F","o","u","n","d">>

(***************************************************************************)
(* C2.  StatusString(text) stores text verbatim and leaves m_statusCode    *)
(* and m_httpVersion as they were; and once StatusCode(code) has been      *)
(* called, the getter returns the code of the most recent such call,       *)
(* however many text-setter calls came after it.                           *)
(***************************************************************************)
C2_StatusStringLeavesCode ==
    [][ /\ lastOp'.op = "StatusString" =>
              /\ m_statusString' = lastOp'.status
              /\ m_statusCode' = m_statusCode
              /\ m_httpVersion' = m_httpVersion
        /\ (lastOp'.op = "GetStatusCode" /\ codeSet' # <<>>) =>
              lastOp'.ret = codeSet'[1]
        /\ codeSet' # <<>> => m_statusCode' = codeSet'[1] ]_vars

\* The getter returned 404 while the status string was the custom text.
C2_Witness ==
    /\ lastOp.op = "GetStatusCode"
    /\ lastOp.ret = 404
    /\ codeSet = <<404>>
    /\ m_statusString = <<"c","u","s","t","o","m">>

(***************************************************************************)
(* C3.  OnStatus returns non-zero exactly when the parser pointer is null  *)
(* or the transaction held in parser->data is null, and 0 otherwise; a     *)
(* failing call changes no field of the transaction.                       *)
(***************************************************************************)
C3_OnStatusFailure ==
    [][ lastOp'.op = "OnStatus" =>
          /\ lastOp'.ret \in {0, -1}
          /\ (lastOp'.ret # 0) <=>
                 (lastOp'.parser.ptr = "nullptr" \/ lastOp'.parser.data = "nullptr")
          /\ (lastOp'.ret # 0) =>
                 /\ m_statusCode' = m_statusCode
                 /\ m_statusString' = m_statusString
                 /\ m_httpVersion' = m_httpVersion
                 /\ m_headers' = m_headers ]_vars

\* A callback on a parser with null data failed on a transaction whose
\* status line had been built.
C3_Witness ==
    /\ lastOp.op = "OnStatus"
    /\ lastOp.ret = -1
    /\ lastOp.parser.ptr = "valid"
    /\ lastOp.parser.data = "nullptr"
    /\ m_statusString = Line200

(***************************************************************************)
(* C4.  After a successful OnStatus reporting (http_major, http_minor,     *)
(* status_code): m_httpVersion is HTTP1 for 1.0, HTTP1_1 for 1.x with x    *)
(* not 0, HTTP2 for major 2, HTTP1_1 for any other major; m_statusCode is  *)
(* status_code; m_statusString reads "<token of that version> <code>       *)
(* <StatusCodeToMessage(code)>", whatever reason phrase the server sent.   *)
(***************************************************************************)
C4_OnStatusSetsVersionThenCode ==
    (lastOp.op = "OnStatus" /\ lastOp.ret = 0) =>
        LET major == lastOp.parser.http_major
            minor == lastOp.parser.http_minor
            code  == lastOp.parser.status_code
        IN  /\ (major = 1 /\ minor = 0) => m_httpVersion = "HTTP1"
            /\ (major = 1 /\ minor # 0) => m_httpVersion = "HTTP1_1"
            /\ (major = 2) => m_httpVersion = "HTTP2"
            /\ (major \notin {1, 2}) => m_httpVersion = "HTTP1_1"
            /\ m_statusCode = code
            /\ IsStatusLine(m_statusString, TokenOf(m_httpVersion), code,
                            StatusCodeToMessage(code))

\* The parser reported HTTP/2.1, 404 and the phrase "Enhance Your Calm":
\* the status string is "HTTP/2.0 404 Not Found".
C4_Witness ==
    /\ lastOp.op = "OnStatus"
    /\ lastOp.ret = 0
    /\ lastOp.parser.http_major = 2
    /\ lastOp.parser.http_minor = 1
    /\ lastOp.parser.status_code = 404
    /\ lastOp.parser.at = <<"E","n","h","a","n","c","e"," ","Y","o","u","r"," ","C","a","l","m">>
    /\ m_statusString = <<"H","T","T","P","/","2",".","0"," ","4","0","4"," ",
                          "N","o","t"," ","F","o","u","n","d">>

(***************************************************************************)
(* C5.  HeadersToString returns the status string, then CRLF, name, ": "   *)
(* and value for each header in iteration order, then CRLF CRLF, names and *)
(* values unmodified; HeadersToVector returns the same characters; neither *)
(* call changes the status line state or the header collection.            *)
(***************************************************************************)
C5_HeadersSerialization ==
    [][ lastOp'.op \in {"HeadersToString", "HeadersToVector"} =>
          /\ lastOp'.text = Preamble(m_statusString, m_headers)
          /\ (m_statusString = Line200 /\ m_headers = ExampleHeaders) =>
                 lastOp'.text = ExamplePreamble
          /\ m_statusCode' = m_statusCode
          /\ m_statusString' = m_statusString
          /\ m_httpVersion' = m_httpVersion
          /\ m_headers' = m_headers ]_vars

\* HeadersToVector returned the example preamble for the example headers.
C5_Witness ==
    /\ lastOp.op = "HeadersToVector"
    /\ m_statusString = Line200
    /\ m_headers = ExampleHeaders
    /\ lastOp.text = ExamplePreamble

(***************************************************************************)
(* C6.  A newly constructed transaction, before any setter or callback,    *)
(* has m_statusCode = 0, m_httpVersion = Unset and an empty status string. *)
(***************************************************************************)
C6_NewTransactionIsZero ==
    lastOp.op = "HttpResponse" =>
        /\ m_statusCode = 0
        /\ m_httpVersion = "Unset"
        /\ m_statusString = <<>>

(***************************************************************************)
(* C7.  StatusCode(code) is enabled for every code and validates nothing:  *)
(* for a code the switch does not list it stores the code and builds       *)
(* "<version-token> <code> ", ending in one space after the last digit;    *)
(* under HTTP1_1 and code 999 the text is exactly "HTTP/1.1 999 ".         *)
(***************************************************************************)
C7_UnlistedCodeGivesEmptyPhrase ==
    /\ lifecycle = "alive" => \A code \in Codes : ENABLED CallStatusCode(code)
    /\ (lastOp.op = "StatusCode" /\ lastOp.code \notin DOMAIN StatusMessages) =>
          LET n == Len(m_statusString)
          IN  /\ m_statusCode = lastOp.code
              /\ IsStatusLine(m_statusString, TokenOf(m_httpVersion), lastOp.code, <<>>)
              /\ m_statusString[n] = " "
              /\ m_statusString[n - 1] \in DigitChars
              /\ (m_httpVersion = "HTTP1_1" /\ lastOp.code = 999) =>
                     m_statusString = <<"H","T","T","P","/","1",".","1"," ","9","9","9"," ">>

\* StatusCode(65535) under HTTP1 gave "HTTP/1.0 65535 ".
C7_Witness ==
    /\ lastOp.op = "StatusCode"
    /\ lastOp.code = 65535
    /\ m_statusCode = 65535
    /\ m_statusString = <<"H","T","T","P","/","1",".","0"," ","6","5","5","3","5"," ">>

\* The status codes of the IANA HTTP Status Code Registry as of 2016
\* (RFC 7231, RFC 7232, RFC 7233, RFC 7235, RFC 2518, RFC 4918, RFC 5842,
\* RFC 3229, RFC 7538, RFC 7540, RFC 2295, RFC 2774, RFC 6585, RFC 7725).
StandardCodes ==
    {100, 101, 102} \cup (200..208) \cup {226} \cup (300..305) \cup {307, 308}
    \cup (400..417) \cup {421, 422, 423, 424, 426, 428, 429, 431, 451}
    \cup (500..508) \cup {510, 511}

\* Conventional extension codes outside the registry ranges above.
NamedExtensionCodes == {420, 451, 499, 509}

(***************************************************************************)
(* C8.  StatusCodeToMessage returns a non-empty canonical phrase for every *)
(* standard HTTP status code and for the listed non-standard ones: after   *)
(* StatusCode(code) with such a code the status string ends with that      *)
(* non-empty phrase.                                                       *)
(***************************************************************************)
C8_StandardCodesHavePhrases ==
    (lastOp.op = "StatusCode" /\ lastOp.code \in StandardCodes \cup NamedExtensionCodes) =>
        /\ StatusCodeToMessage(lastOp.code) # <<>>
        /\ m_statusString[Len(m_statusString)] # " "

(***************************************************************************)
(* C9.  Destroying a transaction frees the parser handle its constructor   *)
(* allocated: no destroyed transaction leaves the handle allocated.        *)
(***************************************************************************)
C9_DestructorFreesParser ==
    lifecycle = "destroyed" => m_httpParser \notin heap

(***************************************************************************)
(* C10.  The status string changes only in StatusCode (called directly or  *)
(* by OnStatus) and in StatusString; a change of the protocol version      *)
(* leaves it as it is, so it keeps the token it was built with, and the    *)
(* next StatusCode call builds it with the token of the version then       *)
(* stored.                                                                 *)
(***************************************************************************)
C10_VersionChangeLeavesTextStale ==
    [][ /\ m_statusString' # m_statusString =>
              lastOp'.op \in {"StatusCode", "OnStatus", "StatusString"}
        /\ lastOp'.op = "SetHttpVersion" =>
              /\ m_httpVersion' = lastOp'.version
              /\ m_statusString' = m_statusString
        /\ lastOp'.op = "StatusCode" =>
              /\ m_httpVersion' = m_httpVersion
              /\ IsStatusLine(m_statusString', TokenOf(m_httpVersion), lastOp'.code,
                              StatusCodeToMessage(lastOp'.code)) ]_vars

\* The version was changed to HTTP2 and the text still reads "HTTP/1.1 200 OK".
C10_Witness ==
    /\ lastOp.op = "SetHttpVersion"
    /\ m_httpVersion = "HTTP2"
    /\ m_statusCode = 200
    /\ m_statusString = Line200

=============================================================================
